---- MODULE Spec2Model ----
(***************************************************************************)
(* Exam-Grading-Agent: the grading pipelines of the repository.            *)
(*                                                                         *)
(*   Spec       grade_exam / handle_vc_pitch: prompt selection, the retry  *)
(*              wrapper call_with_backoff around the scoring oracle, and   *)
(*              the parsing of the oracle's text                           *)
(*              (multi-agent/exam_grader_agents_multi_1.py,                *)
(*               narrative-agent/exam_grader_agents.py,                    *)
(*               multi-agent/gradio_ui_1.py).                              *)
(*   FairSpec   Spec with the handler running to its end.                  *)
(*   SpecCache  transcribe: the transcript cache, two requests that may    *)
(*              interleave (multi-agent/exam_grader_agents_multi_1.py and  *)
(*              the uncached transcribe of exam_grader_agents.py).         *)
(*   SpecAgents the triage -> guardrail -> specialist run of               *)
(*              exam_grader_agents.py.                                     *)
(***************************************************************************)
EXTENDS Integers, Sequences, FiniteSets, TLC

VARIABLES
    \* ---- Spec: one grading request
    prog,       \* which entry point runs: "multi", "narrative" or "vc"
    exam_type,  \* grade_exam's exam_type argument
    rubric,     \* TRUE iff rubric.strip() is non-empty
    pc,         \* position of the request
    prompt,     \* the prompt template selected
    attempt,    \* call_with_backoff's loop variable
    history,    \* outcomes of the oracle calls made so far, in order
    waits,      \* the time.sleep durations performed so far, in order
    executor,   \* how call_with_backoff ended
    raw,        \* the oracle's text, once it answered
    result,     \* what the entry point returned or raised
    \* ---- SpecCache: the transcript cache and two requests
    variant,    \* which transcribe runs: "multi" (file cache) or "root" (none)
    cache,      \* cache file name -> its content, or NoFile
    tpc,        \* request -> position inside transcribe
    tpath,      \* request -> the mp3_path it asks for
    tlocal,     \* request -> the transcript held in the local variable
    tret,       \* request -> what transcribe returned or raised
    computes,   \* mp3_path -> number of Whisper calls made for it
    writes,     \* cache file name -> number of completed writes
    after,      \* request -> the requests that had ended when it started
    \* ---- SpecAgents: one Runner.run(triage_agent, items)
    input_keys, \* the keys present in input_data
    apc,        \* position of the run
    named,      \* the specialists the triage agent's output names
    route,      \* the specialist the triage agent handed off to
    has_audio,  \* the guardrail agent's answer: "unasked", "yes" or "no"
    oracleLog,  \* the oracle (model / Whisper) calls made so far, in order
    outcome     \* how the run ended

gvars == <<prog, exam_type, rubric, pc, prompt, attempt, history, waits,
           executor, raw, result>>
cvars == <<variant, cache, tpc, tpath, tlocal, tret, computes, writes, after>>
avars == <<input_keys, apc, named, route, has_audio, oracleLog, outcome>>
vars == <<gvars, cvars, avars>>

(***************************************************************************)
(* Program constants.                                                      *)
(***************************************************************************)
MAX_RETRIES == 3
INITIAL_BACKOFF == 2
\* the prompts' scale: "a numeric score (0-10)"
MAX_SCORE == 10

(***************************************************************************)
(* Bounds of the model.                                                    *)
(***************************************************************************)
\* largest number of parts in an oracle answer
MaxParts == 2
\* largest number of model turns of a specialist agent
MaxTurns == 2
\* number of transcript requests
NumRequests == 2

RECURSIVE Pow2(_)
Pow2(n) == IF n <= 0 THEN 1 ELSE 2 * Pow2(n - 1)

RECURSIVE SumScores(_)
SumScores(ps) ==
    IF ps = <<>> THEN 0 ELSE Head(ps).score + SumScores(Tail(ps))

(***************************************************************************)
(* The scoring oracle.  A call either answers with a text or raises.       *)
(***************************************************************************)
\* rate limit, connection error, timeout, service unavailable
TransientErrors ==
    {"RateLimitError", "APIConnectionError", "Timeout", "ServiceUnavailableError"}
\* a malformed request: an API error outside the transient set
SemanticErrors == {"BadRequestError"}
\* every exception class of the client library derives from OpenAIError
OpenAIErrors == TransientErrors \cup SemanticErrors
\* an exception that is no API error at all
ForeignErrors == {"TypeError"}
Errors == OpenAIErrors \cup ForeignErrors

\* A part of an answer: "question_i": {"score": X, ...}; hasScore is FALSE when
\* the "score" key is missing.
PartChoices ==
    {[hasScore |-> TRUE, score |-> s] : s \in {0 - 1, 8, MAX_SCORE + 1}}
        \cup {[hasScore |-> FALSE, score |-> 0]}
TotalChoices ==
    {[hasTotal |-> TRUE, total |-> t] : t \in {8, 16, 20}}
        \cup {[hasTotal |-> FALSE, total |-> 0]}
PartSeqs == UNION {[1..n -> PartChoices] : n \in 1..MaxParts}

\* The oracle's text, by what json.loads makes of it: either no JSON at all,
\* or a JSON object with its parts and its self-reported total.
NotJson == [json |-> FALSE, parts |-> <<>>, hasTotal |-> FALSE, total |-> 0]
JsonTexts ==
    {[json |-> TRUE, parts |-> ps, hasTotal |-> t.hasTotal, total |-> t.total] :
        ps \in PartSeqs, t \in TotalChoices}
RawTexts == {NotJson} \cup JsonTexts
NoRaw == [json |-> FALSE, parts |-> <<>>, hasTotal |-> FALSE, total |-> 0 - 1]

Answer(text) == [ok |-> TRUE, error |-> "", text |-> text]
Failure(e) == [ok |-> FALSE, error |-> e, text |-> NoRaw]
Outcomes == {Answer(t) : t \in RawTexts} \cup {Failure(e) : e \in Errors}

(***************************************************************************)
(* call_with_backoff.                                                      *)
(***************************************************************************)
Programs == {"multi", "narrative", "vc"}
\* the entry points that reach the oracle through call_with_backoff
UsesBackoff(p) == p \in {"multi", "narrative"}

\* an except clause that names the rate limit only
CaughtRateLimitOnly(p, e) == e = "RateLimitError"

\* The except clauses.  multi-agent: except (RateLimitError, OpenAIError,
\* APIConnectionError, Timeout), where OpenAIError is the base class of every
\* API error.  narrative-agent: except (RateLimitError, ServiceUnavailableError)
\* and except (APIConnectionError, Timeout).
Caught(p, e) ==
    IF p = "multi"
    THEN e \in {"RateLimitError", "APIConnectionError", "Timeout"} \cup OpenAIErrors
    ELSE e \in {"RateLimitError", "ServiceUnavailableError"}
             \cup {"APIConnectionError", "Timeout"}

\* a slip in the comparison: the last attempt is never recognised
LastAttemptOffByOne(a) == a = MAX_RETRIES + 1

\* if attempt == MAX_RETRIES: raise
LastAttempt(a) == a = MAX_RETRIES

\* the exponent taken one too high
DelayDoubled(a) == INITIAL_BACKOFF * Pow2(a)

\* time.sleep(backoff * (2 ** (attempt - 1)))
Delay(a) == INITIAL_BACKOFF * Pow2(a - 1)

\* for attempt in range(1, MAX_RETRIES + 1)
InRange(a) == a >= 1 /\ a < MAX_RETRIES + 1

(***************************************************************************)
(* grade_exam and handle_vc_pitch.                                         *)
(***************************************************************************)
ExamTypes == {"technical", "narrative", "vc_pitch", "essay"}

\* the rubric test inverted
SelectPromptSwapped(p, t, r) ==
    IF p = "multi"
    THEN IF t = "technical" THEN "TECHNICAL_PROMPT_TEMPLATE"
         ELSE IF r THEN "NARRATIVE_PROMPT_NO_RUBRIC"
              ELSE "NARRATIVE_PROMPT_WITH_RUBRIC"
    ELSE IF p = "narrative" THEN "narrative_agent_prompt"
         ELSE "vc_pitch_prompt"

\* The prompt grade_exam builds: if exam_type == "technical" ... else ...
SelectPrompt(p, t, r) ==
    IF p = "multi"
    THEN IF t = "technical" THEN "TECHNICAL_PROMPT_TEMPLATE"
         ELSE IF r THEN "NARRATIVE_PROMPT_WITH_RUBRIC"
              ELSE "NARRATIVE_PROMPT_NO_RUBRIC"
    ELSE IF p = "narrative" THEN "narrative_agent_prompt"
         ELSE "vc_pitch_prompt"

NoValue == [parts |-> <<>>, hasTotal |-> FALSE, total |-> 0]
NoResult ==
    [kind |-> "none", error |-> "", raw |-> NoRaw, value |-> NoValue, files |-> FALSE]
Raised(e) ==
    [kind |-> "raised", error |-> e, raw |-> NoRaw, value |-> NoValue, files |-> FALSE]

\* json.loads: the object a JSON text denotes (the caller checks text.json)
json_loads(text) ==
    [parts |-> text.parts, hasTotal |-> text.hasTotal, total |-> text.total]

\* an except branch that swallows the parse error: the function returns None
ParseResultSwallow(p, text) ==
    IF text.json
    THEN [kind |-> "graded", error |-> "", raw |-> text,
          value |-> json_loads(text), files |-> (p = "vc")]
    ELSE NoResult

\* What each entry point does with the oracle's text.
\*   multi:     try: return json.loads(raw)
\*              except JSONDecodeError: return {"error": "Invalid JSON", "raw": raw}
\*   narrative: return json.loads(arguments)
\*   vc:        try: json.loads(result) ... return result, json_path, pdf_path
\*              except JSONDecodeError: return result, None, None
ParseResult(p, text) ==
    IF text.json
    THEN [kind |-> "graded", error |-> "", raw |-> text,
          value |-> json_loads(text), files |-> (p = "vc")]
    ELSE IF p = "multi"
         THEN [kind |-> "parse_failure", error |-> "Invalid JSON", raw |-> text,
               value |-> NoValue, files |-> FALSE]
         ELSE IF p = "vc"
              THEN [kind |-> "parse_failure", error |-> "", raw |-> text,
                    value |-> NoValue, files |-> FALSE]
              ELSE Raised("JSONDecodeError")

\* handle_vc_pitch: except openai.OpenAIError as e: return f"Error: {e}", None, None
ErrorString(e) ==
    [kind |-> "error_string", error |-> e, raw |-> NoRaw, value |-> NoValue,
     files |-> FALSE]

CacheIdle ==
    /\ variant = "multi"
    /\ cache = <<>>
    /\ tpc = <<>>
    /\ tpath = <<>>
    /\ tlocal = <<>>
    /\ tret = <<>>
    /\ computes = <<>>
    /\ writes = <<>>
    /\ after = <<>>

AgentsIdle ==
    /\ input_keys = {}
    /\ apc = "idle"
    /\ named = {}
    /\ route = "none"
    /\ has_audio = "unasked"
    /\ oracleLog = <<>>
    /\ outcome = "none"

\* A request: the entry point and its arguments.  handle_exam passes the
\* exam type chosen in the UI; grade_exam takes any string.
Init ==
    /\ prog \in Programs
    /\ exam_type \in IF prog = "multi" THEN ExamTypes
                     ELSE IF prog = "vc" THEN {"vc_pitch"} ELSE {"narrative"}
    /\ rubric \in IF prog = "vc" THEN {FALSE} ELSE BOOLEAN
    /\ pc = "start"
    /\ prompt = "none"
    /\ attempt = 0
    /\ history = <<>>
    /\ waits = <<>>
    /\ executor = "idle"
    /\ raw = NoRaw
    /\ result = NoResult
    /\ CacheIdle
    /\ AgentsIdle

\* The handler is invoked: handle_exam, handle_vc_pitch, or the caller of the
\* narrative-agent grade_exam.
StartRequest ==
    /\ pc = "start"
    /\ pc' = "extracting"
    /\ UNCHANGED <<prog, exam_type, rubric, prompt, attempt, history, waits,
                   executor, raw, result>>
    /\ UNCHANGED <<cvars, avars>>

\* The inputs are turned into text: extract_pdf_to_markdown and
\* extract_text_from_file (handle_exam), analyze_audio (handle_vc_pitch),
\* extract_text (narrative-agent).  An extraction that raises ends the request.
Extract ==
    /\ pc = "extracting"
    /\ \E ok \in BOOLEAN :
        IF ok
        THEN pc' = "prompting" /\ result' = result
        ELSE pc' = "raised" /\ result' = Raised("ExtractionError")
    /\ UNCHANGED <<prog, exam_type, rubric, prompt, attempt, history, waits,
                   executor, raw>>
    /\ UNCHANGED <<cvars, avars>>

\* grade_exam lines 216-228 / handle_vc_pitch lines 54-96: the prompt is built,
\* then the oracle is approached (through call_with_backoff, or directly).
BuildPrompt ==
    /\ pc = "prompting"
    /\ prompt' = SelectPrompt(prog, exam_type, rubric)
    /\ attempt' = IF UsesBackoff(prog) THEN 1 ELSE 0
    /\ executor' = IF UsesBackoff(prog) THEN "running" ELSE "unused"
    /\ pc' = "calling"
    /\ UNCHANGED <<prog, exam_type, rubric, history, waits, raw, result>>
    /\ UNCHANGED <<cvars, avars>>

\* One oracle call that answers.
CallAnswers ==
    /\ pc = "calling"
    /\ \E text \in RawTexts :
        /\ history' = Append(history, Answer(text))
        /\ raw' = text
    /\ executor' = IF UsesBackoff(prog) THEN "returned" ELSE executor
    /\ pc' = "parsing"
    /\ UNCHANGED <<prog, exam_type, rubric, prompt, attempt, waits, result>>
    /\ UNCHANGED <<cvars, avars>>

\* One oracle call inside call_with_backoff that raises.
CallFailsInBackoff ==
    /\ pc = "calling"
    /\ UsesBackoff(prog)
    /\ \E e \in Errors :
        /\ history' = Append(history, Failure(e))
        /\ IF Caught(prog, e) /\ ~LastAttempt(attempt)
           THEN /\ pc' = "sleeping"
                /\ UNCHANGED <<executor, result>>
           ELSE /\ pc' = "raised"
                /\ executor' = "raised"
                /\ result' = Raised(e)
    /\ UNCHANGED <<prog, exam_type, rubric, prompt, attempt, waits, raw>>
    /\ UNCHANGED <<cvars, avars>>

\* time.sleep(...), then the next iteration of the for loop; a loop that ends
\* makes call_with_backoff return None, and grade_exam's resp.choices raises.
Sleep ==
    /\ pc = "sleeping"
    /\ waits' = Append(waits, Delay(attempt))
    /\ attempt' = attempt + 1
    /\ IF InRange(attempt + 1)
       THEN /\ pc' = "calling"
            /\ UNCHANGED <<executor, result>>
       ELSE /\ pc' = "raised"
            /\ executor' = "returned_none"
            /\ result' = Raised("AttributeError")
    /\ UNCHANGED <<prog, exam_type, rubric, prompt, history, raw>>
    /\ UNCHANGED <<cvars, avars>>

\* handle_vc_pitch's direct oracle call raises.
CallFailsDirect ==
    /\ pc = "calling"
    /\ ~UsesBackoff(prog)
    /\ \E e \in Errors :
        /\ history' = Append(history, Failure(e))
        /\ IF e \in OpenAIErrors
           THEN /\ pc' = "returned"
                /\ result' = ErrorString(e)
           ELSE /\ pc' = "raised"
                /\ result' = Raised(e)
    /\ UNCHANGED <<prog, exam_type, rubric, prompt, attempt, waits, executor, raw>>
    /\ UNCHANGED <<cvars, avars>>

\* The oracle's text is parsed and the entry point ends.
Parse ==
    /\ pc = "parsing"
    /\ result' = ParseResult(prog, raw)
    /\ pc' = IF ParseResult(prog, raw).kind = "raised" THEN "raised" ELSE "returned"
    /\ UNCHANGED <<prog, exam_type, rubric, prompt, attempt, history, waits,
                   executor, raw>>
    /\ UNCHANGED <<cvars, avars>>

Next ==
    \/ StartRequest
    \/ Extract
    \/ BuildPrompt
    \/ CallAnswers
    \/ CallFailsInBackoff
    \/ Sleep
    \/ CallFailsDirect
    \/ Parse

Spec == Init /\ [][Next]_vars

(***************************************************************************)
(* Properties of call_with_backoff (checked under Spec).                   *)
(***************************************************************************)
Terminal == pc \in {"returned", "raised"}
Calls == Len(history)
AllTransient(h) ==
    \A i \in 1..Len(h) : ~h[i].ok /\ h[i].error \in TransientErrors
\* k transient failures, then an answer
FailsThenAnswers(h) ==
    /\ Len(h) >= 1
    /\ h[Len(h)].ok
    /\ AllTransient(SubSeq(h, 1, Len(h) - 1))

\* C2: when every oracle call fails with a transient error, call_with_backoff
\* ends only after exactly MAX_RETRIES calls, and it ends by raising the last
\* transient failure to its caller (the spec's OracleUnavailable); it never
\* returns None in place of a result.
C2_ExhaustionRaises ==
    UsesBackoff(prog) =>
        /\ executor # "returned_none"
        /\ Calls <= MAX_RETRIES
        /\ (AllTransient(history) /\ executor # "running" /\ Calls > 0) =>
              /\ Calls = MAX_RETRIES
              /\ executor = "raised"
              /\ pc = "raised"
              /\ result = Raised(history[MAX_RETRIES].error)
              /\ result.error \in TransientErrors

C2_Witness ==
    /\ prog = "multi"
    /\ AllTransient(history)
    /\ Calls = MAX_RETRIES
    /\ executor = "raised"

\* C3: for every k < MAX_RETRIES, after k transient failures call_with_backoff
\* is still running (it goes on to call k+1), and when that call answers it
\* returns this answer after exactly k+1 calls and k waits; no call is made
\* after an answer.
C3_SuccessAfterKFailures ==
    UsesBackoff(prog) =>
        /\ (AllTransient(history) /\ Calls < MAX_RETRIES /\ executor # "idle") =>
              /\ executor = "running"
              /\ pc \in {"calling", "sleeping"}
        /\ FailsThenAnswers(history) =>
              /\ executor = "returned"
              /\ raw = history[Calls].text
              /\ Calls <= MAX_RETRIES
              /\ Len(waits) = Calls - 1
              /\ attempt = Calls
        /\ \A i \in 1..Calls : history[i].ok => i = Calls

C3_Witness ==
    /\ prog = "narrative"
    /\ FailsThenAnswers(history)
    /\ Calls = MAX_RETRIES
    /\ executor = "returned"
    /\ history[Calls].text.json
    /\ result.kind = "graded"
    /\ result.value = json_loads(history[Calls].text)

\* C4: an oracle failure outside the transient set ends call_with_backoff at
\* once: it is the last call, no wait follows it, and it is what the caller
\* gets.
C4_NonTransientFailsFast ==
    UsesBackoff(prog) =>
        \A i \in 1..Calls :
            (~history[i].ok /\ history[i].error \notin TransientErrors) =>
                /\ i = Calls
                /\ Len(waits) = i - 1
                /\ executor = "raised"
                /\ result = Raised(history[i].error)

(***************************************************************************)
(* Properties of the parsing of the oracle's text (checked under Spec).    *)
(***************************************************************************)
Answered == raw # NoRaw

\* C8: when the oracle's text is no JSON, the evaluation ends by returning a
\* ParseFailure that carries the raw text and no score; it does not raise.
C8_NotJsonIsParseFailure ==
    (Terminal /\ Answered /\ ~raw.json) =>
        /\ pc = "returned"
        /\ result.kind = "parse_failure"
        /\ result.raw = raw
        /\ result.value = NoValue

InRangePart(q) == q.hasScore /\ 0 <= q.score /\ q.score <= MAX_SCORE

\* C9: every part of a result reported as a successful evaluation has its score
\* key and 0 <= score <= max_score.
C9_ScoresWithinRange ==
    result.kind = "graded" =>
        \A i \in 1..Len(result.value.parts) : InRangePart(result.value.parts[i])

\* C10: in a successful evaluation the overall score is the aggregation (the sum
\* or the mean) of the part scores.
C10_OverallIsAggregate ==
    (result.kind = "graded"
        /\ \A i \in 1..Len(result.value.parts) : InRangePart(result.value.parts[i])) =>
        /\ result.value.hasTotal
        /\ \/ result.value.total = SumScores(result.value.parts)
           \/ result.value.total * Len(result.value.parts)
                  = SumScores(result.value.parts)

(***************************************************************************)
(* exam_grader_agents.py: grade_exam runs the triage agent, which hands off *)
(* to one specialist; the VC-pitch specialist carries the input guardrail   *)
(* require_audio, itself a run of the guardrail agent.                      *)
(***************************************************************************)
DocKeys == {"pdf_path", "rubric_path", "md_path"}
Specialists == {"technical", "narrative", "vc_pitch"}

\* a guardrail that trips when audio is reported present
TripwireInverted(answer) == answer

\* tripwire_triggered = not out.has_audio
Tripwire(answer) == ~answer

\* input_guardrails=[InputGuardrail(guardrail_function=require_audio)] is set
\* on vc_pitch_agent only
HasInputGuardrail(agent) == agent = "vc_pitch"

\* the turns of the specialist so far (its model calls)
Turns == Cardinality({i \in 1..Len(oracleLog) : oracleLog[i] = "scoring"})

GradeIdle ==
    /\ prog = "multi"
    /\ exam_type = "narrative"
    /\ rubric = FALSE
    /\ pc = "idle"
    /\ prompt = "none"
    /\ attempt = 0
    /\ history = <<>>
    /\ waits = <<>>
    /\ executor = "idle"
    /\ raw = NoRaw
    /\ result = NoResult

\* input_data: any of the document keys, with or without mp3_path
InitAgents ==
    /\ input_keys \in SUBSET (DocKeys \cup {"mp3_path"})
    /\ apc = "start"
    /\ named = {}
    /\ route = "none"
    /\ has_audio = "unasked"
    /\ oracleLog = <<>>
    /\ outcome = "none"
    /\ GradeIdle
    /\ CacheIdle

\* What the triage model may emit: no transfer_to_... tool call (it answers by
\* itself), one, or two; the instructions ask for exactly one, nothing checks it.
TriageOutputs == {n \in SUBSET Specialists : Cardinality(n) <= 2}

\* Runner.run(triage_agent, items): the triage model is called; the run follows
\* one handoff among those its output names, or ends with the triage agent's
\* own answer when it names none.
Triage ==
    /\ apc = "start"
    /\ oracleLog' = Append(oracleLog, "triage")
    /\ \E n \in TriageOutputs :
        /\ named' = n
        /\ \E r \in (IF n = {} THEN {"none"} ELSE n) :
            /\ route' = r
            /\ IF r = "none"
               THEN apc' = "done" /\ outcome' = "no_handoff"
               ELSE /\ apc' = IF HasInputGuardrail(r) THEN "guard" ELSE "specialist"
                    /\ outcome' = outcome
    /\ UNCHANGED <<input_keys, has_audio>>
    /\ UNCHANGED <<gvars, cvars>>

\* an oracle call of the run raises: nothing in grade_exam catches it
TriageFails ==
    /\ apc = "start"
    /\ oracleLog' = Append(oracleLog, "triage")
    /\ apc' = "done"
    /\ outcome' = "oracle_error"
    /\ UNCHANGED <<input_keys, named, route, has_audio>>
    /\ UNCHANGED <<gvars, cvars>>

\* require_audio: the guardrail agent is run on the inputs; its answer decides
\* the tripwire.
Guard ==
    /\ apc = "guard"
    /\ oracleLog' = Append(oracleLog, "guard")
    /\ \E answer \in BOOLEAN :
        /\ has_audio' = IF answer THEN "yes" ELSE "no"
        /\ IF Tripwire(answer)
           THEN apc' = "done" /\ outcome' = "MissingRequiredInput"
           ELSE apc' = "specialist" /\ outcome' = outcome
    /\ UNCHANGED <<input_keys, named, route>>
    /\ UNCHANGED <<gvars, cvars>>

\* A turn of the specialist that calls its tool.  analyze_audio loads the file
\* first (librosa.load) and transcribes only an audio that is there.
ToolTurn ==
    /\ apc = "specialist"
    /\ Turns < MaxTurns
    /\ oracleLog' =
          IF route = "vc_pitch" /\ "mp3_path" \in input_keys
          THEN oracleLog \o <<"scoring", "transcription">>
          ELSE Append(oracleLog, "scoring")
    /\ UNCHANGED <<input_keys, apc, named, route, has_audio, outcome>>
    /\ UNCHANGED <<gvars, cvars>>

\* The turn of the specialist that gives the final output, or fails.
FinalTurn ==
    /\ apc = "specialist"
    /\ oracleLog' = Append(oracleLog, "scoring")
    /\ apc' = "done"
    /\ outcome' \in {"graded", "oracle_error"}
    /\ UNCHANGED <<input_keys, named, route, has_audio>>
    /\ UNCHANGED <<gvars, cvars>>

NextAgents ==
    \/ Triage
    \/ TriageFails
    \/ Guard
    \/ ToolTurn
    \/ FinalTurn

SpecAgents == InitAgents /\ [][NextAgents]_vars

\* C1 as stated: a VC-pitch submission without audio ends with
\* MissingRequiredInput, and no oracle has been called at any point of its run.
C1_NoOracleBeforeGuard ==
    (route = "vc_pitch" /\ "mp3_path" \notin input_keys) =>
        /\ oracleLog = <<>>
        /\ apc = "done" => outcome = "MissingRequiredInput"

\* C1 as the code has it: for a VC-pitch submission without audio, once the
\* guard's check oracle has answered that there is no audio the run is over
\* with MissingRequiredInput; the triage oracle and the check oracle are the
\* only oracles called (two calls), and neither the scoring oracle nor the
\* transcription ever is.  MissingRequiredInput arises in no other way.
C1_GuardTripsAfterTwoCalls ==
    /\ (route = "vc_pitch" /\ "mp3_path" \notin input_keys /\ has_audio = "no") =>
          /\ apc = "done"
          /\ outcome = "MissingRequiredInput"
          /\ oracleLog = <<"triage", "guard">>
    /\ outcome = "MissingRequiredInput" =>
          /\ route = "vc_pitch"
          /\ has_audio = "no"
          /\ oracleLog = <<"triage", "guard">>

C1_Witness ==
    /\ route = "vc_pitch"
    /\ "mp3_path" \notin input_keys
    /\ outcome = "MissingRequiredInput"
    /\ Len(oracleLog) = 2

\* the specialist paths the run has entered
Entered == IF route \in Specialists THEN {route} ELSE {}

\* C11: once the triage has answered, exactly one specialist path is entered
\* when its output names exactly one type, and when it names two types or none
\* the run has failed with AmbiguousClassification before any grading work (no
\* oracle call but the triage's own).
C11_ExactlyOneSpecialist ==
    (apc # "start" /\ outcome # "oracle_error") =>
        /\ Cardinality(named) = 1 => Entered = named
        /\ Cardinality(named) # 1 =>
              /\ Entered = {}
              /\ outcome = "AmbiguousClassification"
              /\ oracleLog = <<"triage">>

(***************************************************************************)
(* transcribe: the transcript cache.                                       *)
(*   multi-agent: a file per os.path.basename(mp3_path) under the cache    *)
(*   directory, tested with os.path.exists, read and written in text mode. *)
(*   exam_grader_agents.py: no cache, Whisper is called every time.        *)
(***************************************************************************)
Reqs == 1..NumRequests
Paths ==
    {[dir |-> "a", base |-> "pitch.mp3"],
     [dir |-> "b", base |-> "pitch.mp3"],
     [dir |-> "a", base |-> "demo.mp3"]}
NoPath == [dir |-> "", base |-> ""]

\* os.path.basename(mp3_path) + ".txt"
CacheFile(path) == path.base
CacheFiles == {CacheFile(q) : q \in Paths}

\* The texts Whisper may answer with, as characters; "CR" and "LF" are the
\* carriage return and the line feed.
Texts == {<<"x">>, <<"x", "LF">>, <<"x", "CR", "LF">>}

\* open(cache_file, "r").read(): text mode translates "\r\n" and "\r" to "\n"
RECURSIVE ReadText(_)
ReadText(t) ==
    IF t = <<>> THEN <<>>
    ELSE IF Head(t) = "CR"
         THEN IF Len(t) >= 2 /\ t[2] = "LF"
              THEN <<"LF">> \o ReadText(SubSeq(t, 3, Len(t)))
              ELSE <<"LF">> \o ReadText(Tail(t))
         ELSE <<Head(t)>> \o ReadText(Tail(t))

\* f.write(transcript) in text mode: "\n" becomes os.linesep, which is "\n"
WriteText(t) == t

\* A file: absent, or its content with the audio it was transcribed from.
NoFile == [exists |-> FALSE, of |-> NoPath, text |-> <<>>]
EmptyFile == [exists |-> TRUE, of |-> NoPath, text |-> <<>>]
FileWith(path, t) == [exists |-> TRUE, of |-> path, text |-> WriteText(t)]

NoTranscript == [have |-> FALSE, of |-> NoPath, text |-> <<>>]
Transcript(path, t) == [have |-> TRUE, of |-> path, text |-> t]

NotEnded == [kind |-> "none", of |-> NoPath, text |-> <<>>, error |-> ""]
Returned(path, t) == [kind |-> "returned", of |-> path, text |-> t, error |-> ""]
Threw(e) == [kind |-> "raised", of |-> NoPath, text |-> <<>>, error |-> e]

\* if os.path.exists(cache_file)
CacheHit(v, file) == v = "multi" /\ file.exists

InitCache ==
    /\ variant \in {"multi", "root"}
    /\ cache = [f \in CacheFiles |-> NoFile]
    /\ tpc = [r \in Reqs |-> "idle"]
    /\ tpath \in [Reqs -> Paths]
    /\ tlocal = [r \in Reqs |-> NoTranscript]
    /\ tret = [r \in Reqs |-> NotEnded]
    /\ computes = [q \in Paths |-> 0]
    /\ writes = [f \in CacheFiles |-> 0]
    /\ after = [r \in Reqs |-> {}]
    /\ GradeIdle
    /\ AgentsIdle

Ended == {r \in Reqs : tpc[r] = "done"}

\* analyze_audio calls transcribe(mp3_path)
Enter(r) ==
    /\ tpc[r] = "idle"
    /\ tpc' = [tpc EXCEPT ![r] = "check"]
    /\ after' = [after EXCEPT ![r] = Ended]
    /\ UNCHANGED <<variant, cache, tpath, tlocal, tret, computes, writes>>
    /\ UNCHANGED <<gvars, avars>>

\* lines 173-174: on a hit the file is read and returned
Hit(r) ==
    /\ tpc[r] = "check"
    /\ CacheHit(variant, cache[CacheFile(tpath[r])])
    /\ tret' = [tret EXCEPT ![r] =
          Returned(cache[CacheFile(tpath[r])].of,
                   ReadText(cache[CacheFile(tpath[r])].text))]
    /\ tpc' = [tpc EXCEPT ![r] = "done"]
    /\ UNCHANGED <<variant, cache, tpath, tlocal, computes, writes, after>>
    /\ UNCHANGED <<gvars, avars>>

\* lines 176-177: on a miss the audio is sent to Whisper
Miss(r) ==
    /\ tpc[r] = "check"
    /\ ~CacheHit(variant, cache[CacheFile(tpath[r])])
    /\ computes' = [computes EXCEPT ![tpath[r]] = @ + 1]
    /\ tpc' = [tpc EXCEPT ![r] = "transcribing"]
    /\ UNCHANGED <<variant, cache, tpath, tlocal, tret, writes, after>>
    /\ UNCHANGED <<gvars, avars>>

\* Whisper answers with a transcript of this audio; the uncached transcribe
\* returns it at once.
WhisperAnswers(r) ==
    /\ tpc[r] = "transcribing"
    /\ \E t \in Texts :
        /\ tlocal' = [tlocal EXCEPT ![r] = Transcript(tpath[r], t)]
        /\ IF variant = "multi"
           THEN /\ tpc' = [tpc EXCEPT ![r] = "open"]
                /\ tret' = tret
           ELSE /\ tpc' = [tpc EXCEPT ![r] = "done"]
                /\ tret' = [tret EXCEPT ![r] = Returned(tpath[r], t)]
    /\ UNCHANGED <<variant, cache, tpath, computes, writes, after>>
    /\ UNCHANGED <<gvars, avars>>

\* the Whisper call raises
WhisperFails(r) ==
    /\ tpc[r] = "transcribing"
    /\ tret' = [tret EXCEPT ![r] = Threw("OpenAIError")]
    /\ tpc' = [tpc EXCEPT ![r] = "done"]
    /\ UNCHANGED <<variant, cache, tpath, tlocal, computes, writes, after>>
    /\ UNCHANGED <<gvars, avars>>

\* line 183: open(cache_file, "w") creates or truncates the file, or raises
OpenCache(r) ==
    /\ tpc[r] = "open"
    /\ \/ /\ cache' = [cache EXCEPT ![CacheFile(tpath[r])] = EmptyFile]
          /\ tpc' = [tpc EXCEPT ![r] = "write"]
          /\ tret' = tret
       \/ /\ cache' = cache
          /\ tpc' = [tpc EXCEPT ![r] = "done"]
          /\ tret' = [tret EXCEPT ![r] = Threw("OSError")]
    /\ UNCHANGED <<variant, tpath, tlocal, computes, writes, after>>
    /\ UNCHANGED <<gvars, avars>>

\* lines 184-185: f.write(transcript), the file is closed, transcript returned;
\* a write that raises leaves the truncated file and the exception propagates
WriteCache(r) ==
    /\ tpc[r] = "write"
    /\ \/ /\ cache' = [cache EXCEPT ![CacheFile(tpath[r])] =
                          FileWith(tlocal[r].of, tlocal[r].text)]
          /\ writes' = [writes EXCEPT ![CacheFile(tpath[r])] = @ + 1]
          /\ tret' = [tret EXCEPT ![r] = Returned(tlocal[r].of, tlocal[r].text)]
       \/ /\ cache' = cache
          /\ writes' = writes
          /\ tret' = [tret EXCEPT ![r] = Threw("OSError")]
    /\ tpc' = [tpc EXCEPT ![r] = "done"]
    /\ UNCHANGED <<variant, tpath, tlocal, computes, after>>
    /\ UNCHANGED <<gvars, avars>>

NextCache ==
    \E r \in Reqs :
        \/ Enter(r)
        \/ Hit(r)
        \/ Miss(r)
        \/ WhisperAnswers(r)
        \/ WhisperFails(r)
        \/ OpenCache(r)
        \/ WriteCache(r)

SpecCache == InitCache /\ [][NextCache]_vars

InFlight(path) == {r \in Reqs : tpc[r] = "transcribing" /\ tpath[r] = path}

\* C5: of two requests for the same audio made one after the other, both
\* answered, the transcription ran at most once and the second got the very
\* string the first got.
C5_SecondRequestHitsCache ==
    \A r1, r2 \in Reqs :
        (/\ r1 \in after[r2]
         /\ tpath[r1] = tpath[r2]
         /\ tret[r1].kind = "returned"
         /\ tret[r2].kind = "returned") =>
            /\ computes[tpath[r1]] <= 1
            /\ tret[r2].text = tret[r1].text

\* C6: with the cached transcribe, at most one transcription of an audio is in
\* flight, the transcription runs once and the entry is written once, and the
\* requests for it that are answered hold the same transcript.
C6_SingleFlight ==
    variant = "multi" =>
        /\ \A q \in Paths :
              /\ Cardinality(InFlight(q)) <= 1
              /\ computes[q] <= 1
        /\ \A f \in CacheFiles : writes[f] <= 1
        /\ \A r1, r2 \in Reqs :
              (/\ tpath[r1] = tpath[r2]
               /\ tret[r1].kind = "returned"
               /\ tret[r2].kind = "returned") => tret[r1].text = tret[r2].text

\* C7: a request that missed the cache and got its transcript from Whisper
\* returns that transcript, also when the cache file could not be written.
C7_WriteFailureIsNotFatal ==
    \A r \in Reqs :
        (tpc[r] = "done" /\ tlocal[r].have) =>
            /\ tret[r].kind = "returned"
            /\ tret[r].text = tlocal[r].text

(***************************************************************************)
(* The phases of an evaluation run (checked under FairSpec).               *)
(***************************************************************************)
\* A handler runs on its thread until it returns or raises.
FairSpec == Spec /\ WF_vars(Next)

Phase ==
    CASE pc = "start" -> "Unstarted"
      [] pc = "extracting" -> "Extracting"
      [] pc = "prompting" -> "Prompting"
      [] pc \in {"calling", "sleeping"} -> "AwaitingOracle"
      [] pc = "parsing" -> "Parsing"
      [] pc \in {"returned", "raised"} ->
            IF result.kind = "graded" THEN "Graded"
            ELSE IF result.kind = "parse_failure" THEN "ParseFailure"
            ELSE IF result.kind \in {"raised", "error_string"} THEN "Errored"
            ELSE "NoOutcome"
      [] OTHER -> "Idle"

TerminalPhases == {"Graded", "ParseFailure", "Errored"}
PhaseChain ==
    {<<"Unstarted", "Extracting">>, <<"Extracting", "Prompting">>,
     <<"Prompting", "AwaitingOracle">>, <<"AwaitingOracle", "AwaitingOracle">>,
     <<"AwaitingOracle", "Parsing">>, <<"Parsing", "Graded">>,
     <<"Parsing", "ParseFailure">>}
\* a started run may fail in any phase
FailurePhases == {"Extracting", "Prompting", "AwaitingOracle", "Parsing"}

PhaseStep ==
    /\ ~Terminal
    /\ \/ <<Phase, Phase'>> \in PhaseChain
       \/ Phase \in FailurePhases /\ Phase' = "Errored"
    \* the oracle is called only once the prompt is built, and its text is
    \* parsed only once it has answered
    /\ history' # history => prompt # "none" /\ Phase = "AwaitingOracle"
    /\ Phase' \in {"Graded", "ParseFailure"} => raw # NoRaw /\ Phase = "Parsing"

\* C12: the phases of a run follow Unstarted -> Extracting -> Prompting ->
\* AwaitingOracle -> Parsing -> {Graded, ParseFailure, Errored}, a failure
\* leading to Errored from any phase; nothing happens after a terminal phase;
\* a run that has ended is in exactly one of the three terminal phases; and
\* every started run ends, whatever the oracle answers or raises.
C12_StateMachine ==
    /\ [][PhaseStep]_vars
    /\ [](Terminal => Phase \in TerminalPhases)
    /\ (pc = "extracting" ~> Terminal)

C12_Witness ==
    /\ Phase = "ParseFailure"
    /\ Len(waits) = MAX_RETRIES - 1
    /\ prompt # "none"

(***************************************************************************)
(* The waits of call_with_backoff (checked under Spec).                    *)
(***************************************************************************)
\* a wait is performed only after a failed attempt that another attempt
\* follows: none before the first call, none after the last one
WaitsOnlyBetweenAttempts ==
    UsesBackoff(prog) =>
        /\ Len(waits) <= MAX_RETRIES - 1
        /\ pc = "calling" => Len(waits) = Calls
        /\ pc = "sleeping" => Len(waits) = Calls - 1
        /\ (Terminal /\ Calls > 0) => Len(waits) = Calls - 1
        /\ Calls = 0 => waits = <<>>

\* C13 as stated: the wait after the failed attempt number a, counted from 0,
\* is initial_delay * 2^(a-1); twice the i-th wait (a = i-1) is therefore
\* initial_delay * 2^(i-1).
C13_DelayCountedFromZero ==
    /\ WaitsOnlyBetweenAttempts
    /\ \A i \in 1..Len(waits) : 2 * waits[i] = INITIAL_BACKOFF * Pow2(i - 1)

\* C13 as the code has it: the wait after the failed attempt number a, counted
\* from 1, is initial_delay * 2^(a-1): initial_delay after the first failure,
\* twice that after the second; waits happen only between two attempts.
C13_DelayCountedFromOne ==
    /\ WaitsOnlyBetweenAttempts
    /\ \A i \in 1..Len(waits) : waits[i] = INITIAL_BACKOFF * Pow2(i - 1)

C13_Witness ==
    /\ UsesBackoff(prog)
    /\ waits = <<INITIAL_BACKOFF, 2 * INITIAL_BACKOFF>>
    /\ executor = "raised"
    /\ Calls = MAX_RETRIES

\* C14: every path reaches the scoring oracle through call_with_backoff, so a
\* run whose first scoring call failed with a transient error has called the
\* oracle again before it ended.
C14_EveryPathRetries ==
    /\ pc \in {"calling", "sleeping", "parsing"} => executor # "unused"
    /\ (Terminal /\ Calls >= 1 /\ ~history[1].ok
            /\ history[1].error \in TransientErrors) => Calls >= 2

(***************************************************************************)
(* The prompt selected by grade_exam (checked under Spec).                 *)
(***************************************************************************)
NarrativePrompts == {"NARRATIVE_PROMPT_WITH_RUBRIC", "NARRATIVE_PROMPT_NO_RUBRIC"}

\* C15 as stated: grade_exam uses a narrative prompt for no exam_type but
\* "narrative".
C15_NoNarrativeDefault ==
    (prog = "multi" /\ prompt \in NarrativePrompts) => exam_type = "narrative"

\* C15 as the code has it: grade_exam uses the technical prompt exactly when
\* exam_type is "technical", and for every other exam_type, "vc_pitch" and
\* unrecognized strings included, the narrative prompt, the one with the rubric
\* exactly when a rubric is given.
C15_NarrativeIsTheDefault ==
    (prog = "multi" /\ prompt # "none") =>
        /\ prompt = "TECHNICAL_PROMPT_TEMPLATE" <=> exam_type = "technical"
        /\ exam_type # "technical" =>
              /\ prompt \in NarrativePrompts
              /\ prompt = "NARRATIVE_PROMPT_WITH_RUBRIC" <=> rubric

C15_Witness ==
    /\ prog = "multi"
    /\ exam_type = "vc_pitch"
    /\ prompt = "NARRATIVE_PROMPT_NO_RUBRIC"
    /\ result.kind = "graded"

(***************************************************************************)
(* The source of a returned transcript (checked under SpecCache).          *)
(***************************************************************************)
\* the transcribe calls so far were made one after the other
Sequential == \A r1, r2 \in Reqs : r1 = r2 \/ r1 \in after[r2] \/ r2 \in after[r1]
                                   \/ tpc[r1] = "idle" \/ tpc[r2] = "idle"

\* C16: after any sequence of transcribe calls, the transcript returned for an
\* audio file was computed from that same file, never from another file (one
\* with the same base name in another directory).
C16_TranscriptOfTheSameSource ==
    Sequential =>
        \A r \in Reqs :
            (tret[r].kind = "returned" /\ tret[r].of \in Paths) =>
                tret[r].of = tpath[r]

====
